---- MODULE Spec2Model ----
(***************************************************************************)
(* Sunset Symphony - idol manager sim (src/mirai_v0.0.1-alpha.py).         *)
(*                                                                         *)
(* Numbers.  Python ints are TLA+ integers.  Python floats are fixed-point *)
(* integers: reputation is carried in units of 1/RepScale, the scores of   *)
(* live() and work() (perf, energy, hype, satisfaction) in units of        *)
(* 1/Centi.  int(x) truncates towards zero (Trunc).                        *)
(*                                                                         *)
(* JSON.  A JSON value is a record [t, s, v]: t is its type, s the text of *)
(* a string (the template of a formatted one), v its numbers (the value of *)
(* an int, the fixed-point value of a float, the arguments of a formatted  *)
(* string).  A dict is a record that has every key, an absent key holding  *)
(* JMissing, so that d.get(k, default) is Get(d[k], default).              *)
(***************************************************************************)
EXTENDS Integers, Sequences, FiniteSets, TLC

\* ---------------------------- bounds ----------------------------
\* menu choices taken in one session before the player quits
MaxSteps == 1

\* ---------------------------- fixed point ----------------------------
RepScale == 10000
Centi == 100

Max(a, b) == IF a >= b THEN a ELSE b
Min(a, b) == IF a <= b THEN a ELSE b

\* int(n/d) of Python: truncation towards zero
Trunc(n, d) == IF n >= 0 THEN n \div d ELSE -((-n) \div d)

RECURSIVE Bisect(_, _, _)
Bisect(x, lo, hi) ==
    IF hi - lo <= 1 THEN lo
    ELSE LET mid == (lo + hi) \div 2
         IN  IF mid * mid <= x THEN Bisect(x, mid, hi) ELSE Bisect(x, lo, mid)

\* floor(sqrt(x)) for 0 <= x < 46340^2
Isqrt(x) == Bisect(x, 0, 46340)

RECURSIVE SumSeq(_)
SumSeq(s) == IF s = <<>> THEN 0 ELSE Head(s) + SumSeq(Tail(s))

\* ---------------------------- data model ----------------------------
STATS == <<"vocal", "dance", "visual", "stamina", "mental">>
StatNames == {STATS[i] : i \in 1..Len(STATS)}

JStr(text) == [t |-> "str", s |-> text, v |-> <<>>]
JFmt(text, args) == [t |-> "str", s |-> text, v |-> args]
JInt(n) == [t |-> "int", s |-> "", v |-> <<n>>]
JFloat(n) == [t |-> "float", s |-> "", v |-> <<n>>]
JNull == [t |-> "null", s |-> "", v |-> <<>>]
JList == [t |-> "list", s |-> "", v |-> <<>>]
JMissing == [t |-> "missing", s |-> "", v |-> <<>>]

\* d.get(k, default)
Get(j, default) == IF j.t = "missing" THEN default ELSE j

\* int(x): the value, or the exception it raises
PyInt(j) ==
    CASE j.t = "int" -> [err |-> "ok", n |-> j.v[1]]
      [] j.t = "float" -> [err |-> "ok", n |-> Trunc(j.v[1], RepScale)]
      [] j.t = "str" -> [err |-> "ValueError", n |-> 0]
      [] OTHER -> [err |-> "TypeError", n |-> 0]

\* float(x), in units of 1/RepScale
PyFloat(j) ==
    CASE j.t = "int" -> [err |-> "ok", n |-> j.v[1] * RepScale]
      [] j.t = "float" -> [err |-> "ok", n |-> j.v[1]]
      [] j.t = "str" -> [err |-> "ValueError", n |-> 0]
      [] OTHER -> [err |-> "TypeError", n |-> 0]

\* clamp_stats without the ceiling of 100
clampNoCeiling(x) == Max(1, x)
clamp(x) == Max(1, Min(100, x))

\* Idol.clamp_stats
clamp_stats(idol) == [idol EXCEPT !.stats = [k \in StatNames |-> clamp(idol.stats[k])]]

\* Idol.avg_perf, in units of 1/Centi
avg_perf(idol) ==
    30 * idol.stats["vocal"] + 30 * idol.stats["dance"] + 25 * idol.stats["visual"]
    + 10 * idol.stats["mental"] + 5 * idol.stats["stamina"]

SumOver(idols, F(_)) == SumSeq([i \in 1..Len(idols) |-> F(idols[i])])

\* GroupState.group_perf, in units of 1/Centi
group_perf(st) == SumOver(st.idols, avg_perf) \div Len(st.idols)

\* mean over `idols` of (stamina + mental) / 2, in units of 1/Centi
Energy(idols) ==
    LET e(i) == i.stats["stamina"] + i.stats["mental"]
    IN  (Centi * SumOver(idols, e)) \div (2 * Len(idols))

\* GroupState.group_energy
group_energy(st) == Energy(st.idols)

\* ---------------------------- setup ----------------------------
Idol(name, age, role, blurb, vo, da, vi, sta, me) ==
    [name |-> name, age |-> age, role |-> role, blurb |-> blurb,
     stats |-> [k \in StatNames |->
                  CASE k = "vocal" -> vo [] k = "dance" -> da [] k = "visual" -> vi
                    [] k = "stamina" -> sta [] OTHER -> me]]

leader == Idol(JStr("Aoi Kisaragi"), 15, JStr("Leader (quiet, searching for her smile)"),
               JStr("Shy and sharply observant, ..."), 46, 44, 48, 52, 60)
bubbly == Idol(JStr("Yui Tachibana"), 15, JStr("Mood-maker (bubbly, clumsy, sincere)"),
               JStr("Yui is bright enough to light a hallway ..."), 42, 50, 47, 58, 48)
serious == Idol(JStr("Rina Kurosawa"), 16, JStr("Strategist (smart, serious, skeptical)"),
                JStr("Rina learns fast, speaks precisely, ..."), 50, 46, 45, 50, 62)

GroupState(idols, day, funds, fans, reputation, report) ==
    [name |-> JStr("Sunset Symphony"), agency |-> JStr("Mirai Productions"),
     ai_name |-> JStr("ORACLE//MIRAI"), idols |-> idols, day |-> day, funds |-> funds,
     fans |-> fans, reputation |-> reputation, last_live_report |-> report]

make_game == GroupState(<<leader, bubbly, serious>>, 1, 2000, 40, 0, JStr(""))

\* the value of `state` in main() while it is None
NoState == GroupState(<<>>, 0, 0, 0, 0, JNull)

\* ---------------------------- persistence ----------------------------
\* the dict of one idol in the snapshot; t = "object" for a dict
Payload(name, age, role, blurb, stats) ==
    [t |-> "object", name |-> name, age |-> age, role |-> role, blurb |-> blurb,
     stats |-> stats]
StatsDict(m) == [t |-> "object", m |-> m]
NoStats == [k \in StatNames |-> JMissing]

\* _state_to_dict writing int(state.reputation)
state_to_dictIntRep(st) ==
    [name |-> st.name, agency |-> st.agency, ai_name |-> st.ai_name,
     day |-> JInt(st.day), funds |-> JInt(st.funds), fans |-> JInt(st.fans),
     reputation |-> JInt(Trunc(st.reputation, RepScale)),
     last_live_report |-> st.last_live_report,
     idols |-> [t |-> "list",
                items |-> [i \in 1..Len(st.idols) |->
                    Payload(st.idols[i].name, JInt(st.idols[i].age), st.idols[i].role,
                            st.idols[i].blurb,
                            StatsDict([k \in StatNames |-> JInt(st.idols[i].stats[k])]))]]]

state_to_dict(st) ==
    [name |-> st.name, agency |-> st.agency, ai_name |-> st.ai_name,
     day |-> JInt(st.day), funds |-> JInt(st.funds), fans |-> JInt(st.fans),
     reputation |-> JFloat(st.reputation), last_live_report |-> st.last_live_report,
     idols |-> [t |-> "list",
                items |-> [i \in 1..Len(st.idols) |->
                    Payload(st.idols[i].name, JInt(st.idols[i].age), st.idols[i].role,
                            st.idols[i].blurb,
                            StatsDict([k \in StatNames |-> JInt(st.idols[i].stats[k])]))]]]

RECURSIVE FirstErr(_)
FirstErr(errs) ==
    IF errs = <<>> THEN "ok"
    ELSE IF Head(errs) # "ok" THEN Head(errs) ELSE FirstErr(Tail(errs))

\* the exceptions of building one Idol, in evaluation order: the stats, then the age
PayloadErrs(p) ==
    IF p.t # "object" THEN <<"AttributeError">>
    ELSE (CASE p.stats.t = "missing" -> <<>>
            [] p.stats.t = "object" ->
                 [i \in 1..Len(STATS) |-> PyInt(Get(p.stats.m[STATS[i]], JInt(1))).err]
            [] OTHER -> <<"AttributeError">>)
         \o <<PyInt(Get(p.age, JInt(15))).err>>

\* the Idol built from one payload that raises nothing
IdolOf(p) ==
    clamp_stats(
        [name |-> Get(p.name, JStr("Unknown")),
         age |-> PyInt(Get(p.age, JInt(15))).n,
         role |-> Get(p.role, JStr("Member")),
         blurb |-> Get(p.blurb, JStr("")),
         stats |-> [k \in StatNames |->
                      IF p.stats.t = "object" THEN PyInt(Get(p.stats.m[k], JInt(1))).n
                      ELSE 1]])

RECURSIVE IdolsErr(_)
IdolsErr(items) ==
    IF items = <<>> THEN "ok"
    ELSE IF FirstErr(PayloadErrs(Head(items))) # "ok" THEN FirstErr(PayloadErrs(Head(items)))
    ELSE IdolsErr(Tail(items))

\* _state_from_dict: err is the exception raised ("ok" for none); some is FALSE
\* when it returns None
state_from_dict(data) ==
    LET items == IF data.idols.t = "list" THEN data.idols.items ELSE <<>>
        ierr == CASE data.idols.t = "missing" -> "ok"
                  [] data.idols.t = "list" -> IdolsErr(items)
                  [] OTHER -> "TypeError"
        gerr == FirstErr(<<PyInt(Get(data.day, JInt(1))).err,
                           PyInt(Get(data.funds, JInt(2000))).err,
                           PyInt(Get(data.fans, JInt(40))).err,
                           PyFloat(Get(data.reputation, JFloat(0))).err>>)
    IN  IF ierr # "ok" THEN [err |-> ierr, some |-> FALSE, state |-> NoState]
        ELSE IF items = <<>> THEN [err |-> "ok", some |-> FALSE, state |-> NoState]
        ELSE IF gerr # "ok" THEN [err |-> gerr, some |-> FALSE, state |-> NoState]
        ELSE [err |-> "ok", some |-> TRUE,
              state |->
                [name |-> Get(data.name, JStr("Sunset Symphony")),
                 agency |-> Get(data.agency, JStr("Mirai Productions")),
                 ai_name |-> Get(data.ai_name, JStr("ORACLE//MIRAI")),
                 idols |-> [i \in 1..Len(items) |-> IdolOf(items[i])],
                 day |-> PyInt(Get(data.day, JInt(1))).n,
                 funds |-> PyInt(Get(data.funds, JInt(2000))).n,
                 fans |-> PyInt(Get(data.fans, JInt(40))).n,
                 reputation |-> PyFloat(Get(data.reputation, JFloat(0))).n,
                 last_live_report |-> Get(data.last_live_report, JStr(""))]]

\* a dict with no key
EmptyData ==
    [name |-> JMissing, agency |-> JMissing, ai_name |-> JMissing, day |-> JMissing,
     funds |-> JMissing, fans |-> JMissing, reputation |-> JMissing,
     last_live_report |-> JMissing, idols |-> [t |-> "missing", items |-> <<>>]]

\* SAVE_FILE: absent, unreadable (OSError), garbage (not JSON), nonobject (JSON that
\* is no dict) or object (a dict, in data)
NoFile == [kind |-> "absent", data |-> EmptyData]
FileOf(kind) == [kind |-> kind, data |-> EmptyData]
Snapshot(data) == [kind |-> "object", data |-> data]

\* the exceptions load_state catches
Caught == {"OSError", "JSONDecodeError", "ValueError"}

\* load_state: crash is TRUE when an exception leaves it
load_state(f) ==
    LET r == state_from_dict(f.data)
        err == CASE f.kind = "unreadable" -> "OSError"
                 [] f.kind = "garbage" -> "JSONDecodeError"
                 [] f.kind = "nonobject" -> "AttributeError"
                 [] OTHER -> r.err
    IN  IF f.kind = "absent" THEN [crash |-> FALSE, some |-> FALSE, state |-> NoState]
        ELSE IF err \in Caught THEN [crash |-> FALSE, some |-> FALSE, state |-> NoState]
        ELSE IF err # "ok" THEN [crash |-> TRUE, some |-> FALSE, state |-> NoState]
        ELSE [crash |-> FALSE, some |-> r.some, state |-> r.state]

\* save_state when the write succeeds
save_state(st) == Snapshot(state_to_dict(st))

\* ---------------------------- randomness ----------------------------
\* the draws of random.randint(a, b) and random.uniform(a, b) that the model
\* follows: the two ends of the range
randint(a, b) == {a, b}
uniform(a, b) == {a, b}

\* ---------------------------- mechanics ----------------------------
\* what a resolver leaves behind: the GroupState, the message it printed and
\* whether an exception left it
Done(st, msg) == [state |-> st, out |-> msg, crash |-> FALSE]
Raised(st, exc) == [state |-> st, out |-> exc, crash |-> TRUE]

apply_fatigue(idol, stamina_cost, mental_cost) ==
    clamp_stats([idol EXCEPT !.stats["stamina"] = @ - stamina_cost,
                             !.stats["mental"] = @ - mental_cost])

\* idol.stats[attr] += gain, apply_fatigue, clamp_stats
Train(idol, attr, gain, stamina_cost, mental_cost) ==
    clamp_stats(apply_fatigue([idol EXCEPT !.stats[attr] = @ + gain],
                              stamina_cost, mental_cost))

\* base_gain = random.randint(2, 5), drawn again from (2, 6) for stamina and mental
base_gains(attr) == IF attr \in {"stamina", "mental"} THEN randint(2, 6) ELSE randint(2, 5)

practice_cost(idx) == IF idx # 4 THEN 120 ELSE 220

\* no funds check at all
shortNever(st, funds_cost) == FALSE
\* the check `state.funds <= 0` in place of the comparison with the cost
shortOfEverything(st, funds_cost) == st.funds <= 0
\* `if state.funds < funds_cost`: the action cannot be paid for
short(st, funds_cost) == st.funds < funds_cost

\* gain of solo practice: base_gain + random.randint(0, 3)
solo_gain(base_gain, extra) == base_gain + extra

\* the gain of group practice without the 1 taken off the base
group_gainFullBase(base_gain, extra) == Max(1, base_gain + extra)
\* gain of one idol in group practice: max(1, base_gain - 1 + random.randint(0, 2))
group_gain(base_gain, extra) == Max(1, base_gain - 1 + extra)

\* the part of practice(state) after the payment, with the fatigue of solo
\* practice applied to every idol
practice_paidTiresAll(paid, idx, attr, base_gain, extra) ==
    IF idx = 4 THEN
        Done([paid EXCEPT
                !.idols = [i \in 1..Len(paid.idols) |->
                             Train(paid.idols[i], attr, group_gain(base_gain, extra[i]), 2, 1)],
                !.reputation = @ + 3 * (RepScale \div 100)],
             "Group practice complete!")
    ELSE IF idx > Len(paid.idols) THEN Raised(paid, "IndexError")
    ELSE Done([paid EXCEPT
                 !.idols = [i \in 1..Len(paid.idols) |->
                              IF i = idx
                              THEN Train(paid.idols[i], attr, solo_gain(base_gain, extra[1]), 3, 2)
                              ELSE apply_fatigue(paid.idols[i], 3, 2)],
                 !.reputation = @ + RepScale \div 100],
              "Practice complete!")

\* the part of practice(state) after the payment: paid is the state with the
\* cost debited, extra the draws (one per idol in group practice, extra[1] in solo)
practice_paid(paid, idx, attr, base_gain, extra) ==
    IF idx = 4 THEN
        Done([paid EXCEPT
                !.idols = [i \in 1..Len(paid.idols) |->
                             Train(paid.idols[i], attr, group_gain(base_gain, extra[i]), 2, 1)],
                !.reputation = @ + 3 * (RepScale \div 100)],
             "Group practice complete!")
    ELSE IF idx > Len(paid.idols) THEN Raised(paid, "IndexError")
    ELSE Done([paid EXCEPT !.idols[idx] = Train(@, attr, solo_gain(base_gain, extra[1]), 3, 2),
                           !.reputation = @ + RepScale \div 100],
              "Practice complete!")

\* practice(state) with the debit moved before the funds check
practiceDebitFirst(st, idx, attr_idx, base_gain, extra) ==
    IF idx = 0 \/ attr_idx = 0 THEN Done(st, "Practice cancelled.")
    ELSE IF short(st, practice_cost(idx))
    THEN Done([st EXCEPT !.funds = @ - practice_cost(idx)],
              "Not enough funds for practice today.")
    ELSE practice_paid([st EXCEPT !.funds = @ - practice_cost(idx)], idx,
                       STATS[attr_idx], base_gain, extra)

\* practice(state) with the debit made as soon as the idol is chosen
practicePaidAtTarget(st, idx, attr_idx, base_gain, extra) ==
    IF idx = 0 THEN Done(st, "Practice cancelled.")
    ELSE IF attr_idx = 0
    THEN Done([st EXCEPT !.funds = @ - practice_cost(idx)], "Practice cancelled.")
    ELSE IF short(st, practice_cost(idx))
    THEN Done(st, "Not enough funds for practice today.")
    ELSE practice_paid([st EXCEPT !.funds = @ - practice_cost(idx)], idx,
                       STATS[attr_idx], base_gain, extra)

\* practice(state) for the prompts idx (0 cancels) and attr_idx (0 cancels) and
\* the draws base_gain and extra
practice(st, idx, attr_idx, base_gain, extra) ==
    IF idx = 0 \/ attr_idx = 0 THEN Done(st, "Practice cancelled.")
    ELSE IF short(st, practice_cost(idx))
    THEN Done(st, "Not enough funds for practice today.")
    ELSE practice_paid([st EXCEPT !.funds = @ - practice_cost(idx)], idx,
                       STATS[attr_idx], base_gain, extra)

\* mean of one stat over the workers, in units of 1/Centi
MeanStat(workers, k) ==
    LET f(i) == i.stats[k] IN (Centi * SumOver(workers, f)) \div Len(workers)

\* fan gain of a flyer run; r = random.randint(8, 16)
flyers_gain(workers, reputation, r) ==
    Max(5, Trunc(r * RepScale
                 + (MeanStat(workers, "visual") + MeanStat(workers, "mental")) * 10
                 + reputation * 4, RepScale))

\* fan gain of a guerilla live; r = random.randint(10, 30), crowd_roll in 1/Centi
guerilla_gain(workers, reputation, r, crowd_roll) ==
    LET perf == SumOver(workers, avg_perf) \div Len(workers)
        exhaustion_penalty == Max(0, ((55 * Centi - Energy(workers)) * 12) \div 100)
        crowd == (perf * 55) \div 100 + r * Centi + Trunc(reputation, 10)
    IN  Max(6, Trunc((crowd * crowd_roll) \div Centi - exhaustion_penalty, Centi))

\* rep_delta of a guerilla live; u = random.uniform(-0.01, 0.03) in 1/RepScale
guerilla_rep(workers, u) ==
    Trunc(SumOver(workers, avg_perf) \div Len(workers) - 45 * Centi, 9) + u

\* work(state) for the prompts worker_choice (0 cancels) and choice (0 cancels,
\* 1 flyers, 2 guerilla live) and the draws r, crowd_roll and u
work(st, worker_choice, choice, r, crowd_roll, u) ==
    IF worker_choice = 0 \/ choice = 0 THEN Done(st, "Work cancelled.")
    ELSE LET everyone == worker_choice = Len(st.idols) + 1
             workers == IF everyone THEN st.idols ELSE <<st.idols[worker_choice]>>
             tired(sc, mc) == [i \in 1..Len(st.idols) |->
                                 IF everyone \/ i = worker_choice
                                 THEN apply_fatigue(st.idols[i], sc, mc) ELSE st.idols[i]]
         IN  IF choice = 1 THEN
                 IF short(st, 60) THEN Done(st, "Not enough funds for printing flyers.")
                 ELSE Done([st EXCEPT !.funds = @ - 60,
                                      !.fans = @ + flyers_gain(workers, st.reputation, r),
                                      !.idols = tired(1, 1)],
                           "Flyer run complete!")
             ELSE
                 IF short(st, 140)
                 THEN Done(st, "Not enough funds for transport + minimal equipment.")
                 ELSE Done([st EXCEPT
                              !.funds = @ - 140,
                              !.fans = @ + guerilla_gain(workers, st.reputation, r, crowd_roll),
                              !.reputation = @ + guerilla_rep(workers, u),
                              !.idols = tired(4, 3)],
                           "Guerilla live success!")

capacity == 300
venue_cost == 350
ticket_price == 400

\* form_bonus of the formation chosen, in 1/Centi
form_bonus(form_idx) == <<102, 101, 100>>[form_idx]

\* hype of a live; noise = random.uniform(-3, 6) in 1/Centi
live_hype(st, noise) ==
    Max(0, 4 * Isqrt(st.fans * Centi * Centi) + Trunc(st.reputation, 5) + noise)

\* the turnout without the walk-ins
live_turnoutNoWalkIns(fans, hype, walk_ins) ==
    LET expected == Trunc(fans * (1800 + Min(2200, hype \div 2)), RepScale)
    IN  Max(0, Min(capacity, expected))

\* the turnout without the cap at the capacity
live_turnoutUncapped(fans, hype, walk_ins) ==
    Max(0, Trunc(fans * (1800 + Min(2200, hype \div 2)) + walk_ins * RepScale, RepScale))

\* turnout of a live for a hype and walk_ins = random.randint(15, 60)
live_turnout(fans, hype, walk_ins) ==
    LET expected == Trunc(fans * (1800 + Min(2200, hype \div 2)) + walk_ins * RepScale,
                          RepScale)
    IN  Max(0, Min(capacity, expected))

\* performance_score of a live; noise = random.uniform(-2.5, 2.5) in 1/Centi
live_score(st, form_idx, hype, noise) ==
    LET energy_factor == 120 * Centi - Max(0, 55 * Centi - group_energy(st))
    IN  (((group_perf(st) * form_bonus(form_idx)) \div Centi) * energy_factor)
            \div (120 * Centi)
        + noise + hype \div 25

\* the tiers with > in place of >=
tierStrict(sat) ==
    IF sat > 62 * Centi
    THEN [review |-> "The crowd roared", fan_mult |-> 22, rep_delta |-> 1000]
    ELSE IF sat > 54 * Centi
    THEN [review |-> "A warm reception", fan_mult |-> 14, rep_delta |-> 500]
    ELSE IF sat > 48 * Centi
    THEN [review |-> "A decent showing", fan_mult |-> 8, rep_delta |-> 200]
    ELSE [review |-> "Nerves showed", fan_mult |-> 4, rep_delta |-> -100]

\* the outcome tier of a satisfaction (in 1/Centi): fan_mult in 1/Centi and
\* rep_delta in 1/RepScale
tier(satisfaction) ==
    IF satisfaction >= 62 * Centi
    THEN [review |-> "The crowd roared", fan_mult |-> 22, rep_delta |-> 1000]
    ELSE IF satisfaction >= 54 * Centi
    THEN [review |-> "A warm reception", fan_mult |-> 14, rep_delta |-> 500]
    ELSE IF satisfaction >= 48 * Centi
    THEN [review |-> "A decent showing", fan_mult |-> 8, rep_delta |-> 200]
    ELSE [review |-> "Nerves showed", fan_mult |-> 4, rep_delta |-> -100]

\* live(state) for the prompt form_idx (0 cancels) and the draws, in the order
\* of the code: hype noise, walk_ins, score noise, satisfaction noise,
\* merch_per_head, the fan bonus and the fan loss
live(st, form_idx, hn, walk_ins, pn, sn, merch_per_head, fr, lr) ==
    IF form_idx = 0 THEN Done(st, "Live cancelled.")
    ELSE IF short(st, venue_cost)
    THEN Done(st, "Not enough funds to set up the live (permits, equipment, staff).")
    ELSE IF st.fans < 0 THEN Raised(st, "TypeError")
    ELSE LET hype == live_hype(st, hn)
             turnout == live_turnout(st.fans, hype, walk_ins)
             satisfaction == live_score(st, form_idx, hype, pn) + sn
             t == tier(satisfaction)
             income == turnout * (ticket_price + merch_per_head)
             gained_fans == Trunc(turnout * t.fan_mult + fr * Centi, Centi)
             lost_fans == IF satisfaction < 46 * Centi
                          THEN Trunc(Min(st.fans * 3, lr * Centi), Centi) ELSE 0
         IN  Done([st EXCEPT
                     !.funds = @ + income - venue_cost,
                     !.fans = Max(0, @ + gained_fans - lost_fans),
                     !.idols = [i \in 1..Len(st.idols) |-> apply_fatigue(st.idols[i], 6, 5)],
                     !.reputation = @ + t.rep_delta,
                     !.last_live_report =
                         JFmt("LIVE REPORT",
                              <<form_idx, turnout, income, gained_fans, lost_fans,
                                t.rep_delta>>)],
                  "LIVE REPORT")

\* rest_day(state) moving on to the next day as well
rest_dayNextDay(st, rs, rm) ==
    Done([st EXCEPT
            !.day = @ + 1,
            !.idols = [i \in 1..Len(st.idols) |->
                         clamp_stats([st.idols[i] EXCEPT !.stats["stamina"] = @ + rs[i],
                                                         !.stats["mental"] = @ + rm[i]])],
            !.reputation = Max(-RepScale, @ - RepScale \div 100)],
         "Rest day: Everyone recovered some stamina and mental.")

\* rest_day(state); rs[i], rm[i] = the stamina and mental draws of idol i
rest_day(st, rs, rm) ==
    Done([st EXCEPT
            !.idols = [i \in 1..Len(st.idols) |->
                         clamp_stats([st.idols[i] EXCEPT !.stats["stamina"] = @ + rs[i],
                                                         !.stats["mental"] = @ + rm[i]])],
            !.reputation = Max(-RepScale, @ - RepScale \div 100)],
         "Rest day: Everyone recovered some stamina and mental.")

\* end_day(state) adding the drift whatever its sign
end_dayAnyDrift(st, r) ==
    Done([st EXCEPT !.day = @ + 1,
                    !.fans = @ + Trunc(st.reputation * 2 + r * RepScale, RepScale)],
         "Day ended.")

\* end_day(state) rounding the drift up instead of int()
end_dayCeil(st, r) ==
    LET drift == -((-(st.reputation * 2 + r * RepScale)) \div RepScale)
    IN  Done([st EXCEPT !.day = @ + 1,
                        !.fans = Max(0, IF drift > 0 THEN @ + drift ELSE @)],
             "Day ended.")

\* end_day(state); r = random.randint(-1, 3)
end_day(st, r) ==
    LET drift == Trunc(st.reputation * 2 + r * RepScale, RepScale)
    IN  Done([st EXCEPT !.day = @ + 1,
                        !.fans = Max(0, IF drift > 0 THEN @ + drift ELSE @)],
             "Day ended.")

\* ---------------------------- main loop ----------------------------
VARIABLES
    pc,     \* where main() is: "boot", "menu", "quit" or "crashed"
    state,  \* the GroupState of main() (NoState before load_state returns)
    file,   \* the content of SAVE_FILE
    out,    \* the last message printed
    steps,  \* menu choices taken so far
    satisfaction, \* live(): the satisfaction the tier is selected for
    picked, \* live(): the tier selected (NoTier before the selection)
    trained, \* practice(): idx and attr as chosen, and the gain of each idol trained
    worker  \* work(): worker_choice as answered in the last turn (0 outside work())

vars == <<pc, state, file, out, steps, satisfaction, picked, trained, worker>>
locals == <<satisfaction, picked, trained>>

NoTier == [review |-> "", fan_mult |-> 0, rep_delta |-> 0]
NoPractice == [idx |-> 0, attr |-> "", gain |-> <<>>]

\* the loop waits at the menu prompt; Turn is the rest of that turn of the loop:
\* the resolver's result, then save_state
Prompt == pc = "menu" /\ steps < MaxSteps

\* a turn of the loop without the save_state that ends it
TurnUnsaved(r) ==
    /\ state' = r.state
    /\ out' = r.out
    /\ steps' = steps + 1
    /\ pc' = IF r.crash THEN "crashed" ELSE "menu"
    /\ worker' = 0
    /\ UNCHANGED <<file, locals>>

\* a turn of the loop in which work() was answered worker_choice = w
TurnBy(r, w) ==
    /\ state' = r.state
    /\ out' = r.out
    /\ steps' = steps + 1
    /\ pc' = IF r.crash THEN "crashed" ELSE "menu"
    /\ file' = IF r.crash THEN file ELSE save_state(r.state)
    /\ worker' = w
    /\ UNCHANGED locals

Turn(r) == TurnBy(r, 0)

\* main() up to the loop: load_state, else make_game and save_state
Boot ==
    /\ pc = "boot"
    /\ LET r == load_state(file)
       IN  /\ pc' = IF r.crash THEN "crashed" ELSE "menu"
           /\ state' = IF r.crash THEN NoState ELSE IF r.some THEN r.state ELSE make_game
           /\ file' = IF r.crash \/ r.some THEN file ELSE save_state(make_game)
           /\ out' = IF r.crash THEN "Traceback"
                     ELSE IF r.some THEN "Loaded your previous session"
                     ELSE "Welcome to MIRAI PRODUCTIONS"
    /\ UNCHANGED <<steps, locals, worker>>

Idx(st) == 1..Len(st.idols)
NoDraw == <<0>>

\* choice 1; a cancelled prompt and a refused payment draw nothing that matters
Practice ==
    /\ Prompt
    /\ \/ \E idx \in 0..4, attr_idx \in 0..Len(STATS) :
           /\ idx = 0 \/ attr_idx = 0 \/ short(state, practice_cost(idx))
           /\ Turn(practice(state, idx, attr_idx, 0, NoDraw))
       \/ \E idx \in 1..3, attr_idx \in 1..Len(STATS) :
           \E base_gain \in base_gains(STATS[attr_idx]), extra \in randint(0, 3) :
               /\ ~short(state, practice_cost(idx))
               /\ Turn(practice(state, idx, attr_idx, base_gain, <<extra>>))
       \/ \E attr_idx \in 1..Len(STATS) :
           \E base_gain \in base_gains(STATS[attr_idx]), extra \in [Idx(state) -> randint(0, 2)] :
               /\ ~short(state, practice_cost(4))
               /\ Turn(practice(state, 4, attr_idx, base_gain, extra))

\* choice 2
Work ==
    /\ Prompt
    /\ \/ \E worker_choice \in 0..(Len(state.idols) + 1), choice \in 0..2 :
           /\ worker_choice = 0 \/ choice = 0
           /\ TurnBy(work(state, worker_choice, choice, 0, 0, 0), worker_choice)
       \/ \E worker_choice \in 1..(Len(state.idols) + 1), r \in randint(8, 16) :
           TurnBy(work(state, worker_choice, 1, r, 0, 0), worker_choice)
       \/ \E worker_choice \in 1..(Len(state.idols) + 1), r \in randint(10, 30),
             crowd_roll \in uniform(85, 120), u \in uniform(-100, 300) :
           TurnBy(work(state, worker_choice, 2, r, crowd_roll, u), worker_choice)

\* choice 3
Live ==
    /\ Prompt
    /\ \/ \E form_idx \in 0..3 :
           /\ form_idx = 0 \/ short(state, venue_cost)
           /\ Turn(live(state, form_idx, 0, 0, 0, 0, 0, 0, 0))
       \/ \E form_idx \in 1..3 :
           \E hn \in uniform(-300, 600), walk_ins \in randint(15, 60),
              pn \in uniform(-250, 250), sn \in uniform(-300, 300),
              merch_per_head \in randint(40, 90), fr \in randint(2, 12), lr \in randint(1, 8) :
               /\ ~short(state, venue_cost)
               /\ Turn(live(state, form_idx, hn, walk_ins, pn, sn, merch_per_head, fr, lr))

\* choice 4
Rest ==
    /\ Prompt
    /\ \E rs \in [Idx(state) -> randint(6, 10)], rm \in [Idx(state) -> randint(5, 9)] :
           Turn(rest_day(state, rs, rm))

\* choice 7
EndDay == Prompt /\ \E r \in randint(-1, 3) : Turn(end_day(state, r))

\* choices 5 and 6: show_profiles and the last live report
View ==
    Prompt /\ \E choice \in {5, 6} :
        Turn(Done(state, IF choice = 5 THEN "--- Profiles: Sunset Symphony ---"
                         ELSE IF state.last_live_report \in {JStr(""), JNull}
                         THEN "No live performed yet." ELSE "LIVE REPORT"))

Quit ==
    /\ pc = "menu"
    /\ pc' = "quit"
    /\ file' = save_state(state)
    /\ out' = "Thanks for managing Sunset Symphony."
    /\ UNCHANGED <<state, steps, locals, worker>>

Next == Boot \/ Practice \/ Work \/ Live \/ Rest \/ EndDay \/ View \/ Quit

\* ---------------------------- sessions ----------------------------
WithStats(idol, vo, da, vi, sta, me) ==
    Idol(idol.name, idol.age, idol.role, idol.blurb, vo, da, vi, sta, me)

Report(turnout, income, gained_fans, lost_fans, rep_delta) ==
    JFmt("LIVE REPORT", <<1, turnout, income, gained_fans, lost_fans, rep_delta>>)

\* States of earlier sessions, each the snapshot the program wrote at Quit after
\* the menu choices named (draws at the low end of every range unless noted).
\* seven group practices, a solo practice and a guerilla live by Aoi
ShortOfFunds ==
    GroupState(<<WithStats(leader, 55, 44, 48, 31, 48), WithStats(bubbly, 49, 50, 47, 44, 41),
                 WithStats(serious, 57, 46, 45, 36, 55)>>, 1, 200, 71, 2139, JStr(""))
\* eight group practices, a guerilla live and a flyer run by Aoi
OutOfFunds ==
    GroupState(<<WithStats(leader, 54, 44, 48, 31, 48), WithStats(bubbly, 50, 50, 47, 42, 40),
                 WithStats(serious, 58, 46, 45, 34, 54)>>, 1, 40, 89, 2338, JStr(""))
\* six rests, ten solo practices of Aoi, two rests, three days (draws at the high end)
WellRested ==
    GroupState(<<WithStats(leader, 100, 44, 48, 99, 98), WithStats(bubbly, 42, 50, 47, 100, 100),
                 WithStats(serious, 50, 46, 45, 100, 100)>>, 4, 800, 49, 200, JStr(""))
\* 101 lives in a row
WornOut ==
    GroupState(<<WithStats(leader, 46, 44, 48, 1, 1), WithStats(bubbly, 42, 50, 47, 1, 1),
                 WithStats(serious, 50, 46, 45, 1, 1)>>, 1, 3741850, 437, -10100,
               Report(186, 81840, 9, 1, -100))
\* six rounds of ten group guerilla lives and a live, eight rests and a live
\* (draws at the high end)
Popular ==
    GroupState(<<WithStats(leader, 46, 44, 48, 75, 68), WithStats(bubbly, 42, 50, 47, 75, 68),
                 WithStats(serious, 50, 46, 45, 75, 68)>>, 1, 1020150, 4161, 14774,
               Report(300, 147000, 78, 0, 1000))

\* SAVE_FILE as the program leaves it: absent before the first session, else the
\* snapshot of an earlier session
ProgramFiles ==
    {NoFile} \cup {save_state(st) : st \in {ShortOfFunds, OutOfFunds, WellRested,
                                            WornOut, Popular}}

Init ==
    /\ pc = "boot"
    /\ state = NoState
    /\ file \in ProgramFiles
    /\ out = ""
    /\ steps = 0
    /\ satisfaction = 0
    /\ picked = NoTier
    /\ trained = NoPractice
    /\ worker = 0

Spec == Init /\ [][Next]_vars

\* ---------------------------- edited snapshots ----------------------------
SavedGame == state_to_dict(make_game)
Aoi == SavedGame.idols.items[1]
ListOf(items) == [t |-> "list", items |-> items]
NotADict == [t |-> "int", name |-> JMissing, age |-> JMissing, role |-> JMissing,
             blurb |-> JMissing, stats |-> [t |-> "missing", m |-> NoStats]]
Poor(funds) == [SavedGame EXCEPT !.funds = JInt(funds)]
WithIdols(data, items) == Snapshot([data EXCEPT !.idols = ListOf(items)])
WithStat(j) ==
    WithIdols(SavedGame, <<[Aoi EXCEPT !.stats.m["vocal"] = j]>> \o Tail(SavedGame.idols.items))
AllMissing == [Aoi EXCEPT !.stats = [t |-> "missing", m |-> NoStats], !.age = JMissing,
                          !.name = JMissing, !.role = JMissing, !.blurb = JMissing]

\* SAVE_FILE as anything else may leave it: snapshots that are unreadable, are
\* not JSON, are not a dict, or are a dict with keys absent or of another type
\* or value than save_state writes
EditedFiles ==
    {FileOf("unreadable"), FileOf("garbage"), FileOf("nonobject"),
     Snapshot([SavedGame EXCEPT !.idols = [t |-> "missing", items |-> <<>>]]),
     WithIdols(SavedGame, <<>>),
     Snapshot([SavedGame EXCEPT !.idols = [t |-> "null", items |-> <<>>]]),
     WithIdols(SavedGame, <<NotADict>>),
     WithIdols(SavedGame, <<[Aoi EXCEPT !.stats = [t |-> "null", m |-> NoStats]]>>),
     WithStat(JNull),
     WithStat(JStr("abc")),
     Snapshot([SavedGame EXCEPT !.day = JStr("abc")]),
     Snapshot([SavedGame EXCEPT !.day = JNull]),
     WithIdols(Poor(0),
               <<[Aoi EXCEPT !.stats.m["vocal"] = JInt(0), !.stats.m["dance"] = JInt(250),
                             !.stats.m["mental"] = JFloat(7 * RepScale + 5000)]>>
               \o Tail(SavedGame.idols.items)),
     Snapshot([SavedGame EXCEPT !.day = JInt(-5), !.funds = JInt(-100)]),
     Snapshot([SavedGame EXCEPT !.fans = JInt(-3), !.funds = JInt(400)]),
     Snapshot([SavedGame EXCEPT !.fans = JInt(0), !.reputation = JFloat(-RepScale)]),
     Snapshot([EmptyData EXCEPT !.idols = ListOf(<<AllMissing>>)])}

InitLoad ==
    /\ pc = "boot"
    /\ state = NoState
    /\ file \in {NoFile} \cup EditedFiles
    /\ out = ""
    /\ steps = 0
    /\ satisfaction = 0
    /\ picked = NoTier
    /\ trained = NoPractice
    /\ worker = 0

SpecLoad == InitLoad /\ [][Next]_vars

\* ---------------------------- the tier selection of live() ----------------------------
\* satisfactions from SatLow to SatHigh points, in steps of 1/Centi
SatLow == 40
SatHigh == 70

InitTier ==
    /\ pc = "live"
    /\ state = make_game
    /\ file = NoFile
    /\ out = ""
    /\ steps = 0
    /\ satisfaction \in (SatLow * Centi)..(SatHigh * Centi)
    /\ picked = NoTier
    /\ trained = NoPractice
    /\ worker = 0

\* the if / elif chain of live() on the satisfaction
PickTier ==
    /\ pc = "live"
    /\ picked' = tier(satisfaction)
    /\ pc' = "tier picked"
    /\ UNCHANGED <<state, file, out, steps, satisfaction, trained, worker>>

SpecTier == InitTier /\ [][PickTier]_vars

\* ---------------------------- the gains of practice() ----------------------------
\* every value random.randint(a, b) can return
any_randint(a, b) == a..b

\* every base_gain practice() can draw for an attribute
any_base_gain(attr) ==
    IF attr \in {"stamina", "mental"} THEN any_randint(2, 6) ELSE any_randint(2, 5)

\* practice() after both prompts were answered: idx and attr are chosen
InitGain ==
    /\ pc = "practice"
    /\ state = make_game
    /\ file = save_state(make_game)
    /\ out = ""
    /\ steps = 0
    /\ satisfaction = 0
    /\ picked = NoTier
    /\ trained \in {[idx |-> idx, attr |-> STATS[attr_idx], gain |-> <<>>] :
                       idx \in 1..4, attr_idx \in 1..Len(STATS)}
    /\ worker = 0

\* the draws of practice() and what it does with them
DrawGain ==
    /\ pc = "practice"
    /\ \E base_gain \in any_base_gain(trained.attr) :
           \/ /\ trained.idx = 4
              /\ \E extra \in [Idx(state) -> any_randint(0, 2)] :
                     LET r == practice_paid([state EXCEPT !.funds = @ - practice_cost(4)],
                                            4, trained.attr, base_gain, extra)
                     IN  /\ trained' = [trained EXCEPT
                                          !.gain = [i \in Idx(state) |->
                                                      group_gain(base_gain, extra[i])]]
                         /\ state' = r.state
                         /\ out' = r.out
           \/ /\ trained.idx # 4
              /\ \E extra \in any_randint(0, 3) :
                     LET r == practice_paid([state EXCEPT
                                               !.funds = @ - practice_cost(trained.idx)],
                                            trained.idx, trained.attr, base_gain, <<extra>>)
                     IN  /\ trained' = [trained EXCEPT
                                          !.gain = <<solo_gain(base_gain, extra)>>]
                         /\ state' = r.state
                         /\ out' = r.out
    /\ pc' = "practised"
    /\ UNCHANGED <<file, steps, satisfaction, picked, worker>>

SpecGain == InitGain /\ [][DrawGain]_vars

\* ---------------------------- properties ----------------------------
\* main() holds a GroupState: the loop is at the menu or has been left by Quit
InSession == pc \in {"menu", "quit"}

AllStats(st, P(_)) == \A i \in 1..Len(st.idols) : \A k \in StatNames : P(st.idols[i].stats[k])
InRange(x) == x \in 1..100

\* C1: in every state of a session that began as a new game (or continues one
\* from its snapshot), each of the five stats of every performer is in [1,100]
StatsInRange == InSession => AllStats(state, InRange)

\* C1 witness: a rest has pushed a stamina of 99 against the ceiling
RestedToCeiling ==
    /\ out = "Rest day: Everyone recovered some stamina and mental."
    /\ state.idols[1].stats["stamina"] = 100
    /\ state.idols[1].stats["mental"] = 100
    /\ state.funds = WellRested.funds

NotEnoughFunds ==
    {"Not enough funds for practice today.", "Not enough funds for printing flyers.",
     "Not enough funds for transport + minimal equipment.",
     "Not enough funds to set up the live (permits, equipment, staff)."}

\* C2: a Practice, Work or Live chosen with funds below its cost (120 solo and
\* 220 group practice, 60 flyers, 140 guerilla live, 350 live) does not
\* complete, and the refusal leaves the whole GroupState as it was
AbortLeavesState ==
    [][pc = "menu" =>
         /\ out' \in NotEnoughFunds => state' = state
         /\ state.funds < 120 => out' # "Practice complete!"
         /\ state.funds < 220 => out' # "Group practice complete!"
         /\ state.funds < 60 => out' # "Flyer run complete!"
         /\ state.funds < 140 => out' # "Guerilla live success!"
         /\ (state.funds < 350 /\ out' = "LIVE REPORT") => state' = state]_vars

\* C2 witness: the solo practice of a group with 40 in funds was refused
PracticeRefused ==
    /\ out = "Not enough funds for practice today."
    /\ steps = 1
    /\ state.funds = 40

\* C3: an action taken with fans >= 0 leaves fans >= 0
FansStayNonNegative == [][(pc = "menu" /\ state.fans >= 0) => state'.fans >= 0]_vars

\* C3 witness: a day ended with no fans and a negative reputation
DayEndedWithoutFans ==
    /\ out = "Day ended."
    /\ state.reputation < 0
    /\ state.fans = 0
    /\ state.day = 2

\* C4: funds are >= 0 in every state of a session that began as a new game
FundsNonNegative == InSession => state.funds >= 0

\* C4 witness: a group with 200 in funds has paid for a guerilla live
PaidNearlyAll ==
    /\ out = "Guerilla live success!"
    /\ state.funds = 60

IsReport(j) == j.t = "str" /\ j.s = "LIVE REPORT"
Turnout(j) == j.v[2]

\* C5: the turnout of every completed Live is in [0, 300]
TurnoutWithinCapacity ==
    (InSession /\ IsReport(state.last_live_report)) =>
        Turnout(state.last_live_report) \in 0..300

\* C5 witness: a live of this session filled the venue
SoldOut ==
    /\ out = "LIVE REPORT"
    /\ steps = 1
    /\ Turnout(state.last_live_report) = 300
    /\ state.funds > Popular.funds

\* C6: for every satisfaction exactly one tier applies, the first of >= 62,
\* >= 54, >= 48 and the rest, with (0.22, +0.10), (0.14, +0.05), (0.08, +0.02)
\* and (0.04, -0.01) as fan multiplier and reputation change
TierTable ==
    pc = "tier picked" =>
        /\ satisfaction >= 6200 =>
               picked.fan_mult = 22 /\ picked.rep_delta = RepScale \div 10
        /\ (satisfaction >= 5400 /\ satisfaction < 6200) =>
               picked.fan_mult = 14 /\ picked.rep_delta = 5 * (RepScale \div 100)
        /\ (satisfaction >= 4800 /\ satisfaction < 5400) =>
               picked.fan_mult = 8 /\ picked.rep_delta = 2 * (RepScale \div 100)
        /\ satisfaction < 4800 =>
               picked.fan_mult = 4 /\ picked.rep_delta = -(RepScale \div 100)

\* C6 witness: a satisfaction of exactly 54 got the second tier
TierAtThreshold ==
    /\ pc = "tier picked"
    /\ satisfaction = 5400
    /\ picked.review = "A warm reception"

\* C7: _state_from_dict(_state_to_dict(state)) is a GroupState equal to state
RoundTrip ==
    InSession =>
        state_from_dict(state_to_dict(state)) = [err |-> "ok", some |-> TRUE, state |-> state]

\* C7 witness: a state with a fractional reputation and a live report
PlayedALive ==
    /\ out = "LIVE REPORT"
    /\ steps = 1
    /\ state.reputation = -(RepScale \div 100)
    /\ IsReport(state.last_live_report)

Numeric(j) == j.t \in {"int", "float", "missing"}

\* a snapshot that is unreadable or malformed: not readable, not JSON, not a
\* dict, fields or performer records of the wrong type or with non-numeric
\* values, or no performer
Malformed(f) ==
    \/ f.kind \in {"unreadable", "garbage", "nonobject"}
    \/ /\ f.kind = "object"
       /\ \/ f.data.idols.t # "list"
          \/ f.data.idols.items = <<>>
          \/ \E i \in 1..Len(f.data.idols.items) :
                LET p == f.data.idols.items[i]
                IN  \/ p.t # "object"
                    \/ p.stats.t \notin {"object", "missing"}
                    \/ ~Numeric(p.age)
                    \/ \E k \in StatNames : ~Numeric(p.stats.m[k])
          \/ \E j \in {f.data.day, f.data.funds, f.data.fans, f.data.reputation} :
                ~Numeric(j)

\* C8: started on an unreadable or malformed snapshot, main() reaches the menu
\* with a fresh game
MalformedStartsFresh ==
    [][(pc = "boot" /\ Malformed(file)) => (pc' = "menu" /\ state' = make_game)]_vars

\* C9: the performer list holds exactly 3 performers in every state of a session
ThreePerformers == InSession => Len(state.idols) = 3

\* C10: a GroupState restored from a readable snapshot has day >= 1, funds >= 0,
\* fans >= 0 and every stat in [1,100]
RestoredWithinModel ==
    (pc = "menu" /\ steps = 0 /\ out = "Loaded your previous session") =>
        /\ state.day >= 1
        /\ state.funds >= 0
        /\ state.fans >= 0
        /\ AllStats(state, InRange)

\* floor(a / b) for b > 0
Floor(a, b) == a \div b

\* max(0, floor(2 * reputation + r)), the fans the spec has End Day add
Drift(st, r) == Max(0, Floor(2 * st.reputation + r * RepScale, RepScale))

\* C11: End Day never decreases fans: for every draw r in -1..3 the fans after
\* are the fans before plus max(0, floor(2 * reputation + r)), and the End Day
\* the loop has run left one of these values
FansDriftUp ==
    [][pc = "menu" =>
         /\ \A r \in -1..3 : end_day(state, r).state.fans = state.fans + Drift(state, r)
         /\ out' = "Day ended." =>
                /\ state'.fans >= state.fans
                /\ \E r \in -1..3 : state'.fans = state.fans + Drift(state, r)]_vars

\* C11 witness: a day ended on a reputation of -1.01, where the drift is
\* negative for every draw, and the 437 fans are all there
NegativeDriftDiscarded ==
    /\ out = "Day ended."
    /\ state.day = 2
    /\ state.reputation = WornOut.reputation
    /\ state.fans = WornOut.fans

\* C12: End Day increments day by exactly 1 and leaves funds, reputation, the
\* last live report and every stat unchanged; no other choice at the menu
\* (completed, refused or cancelled) changes day, and day is >= 1 throughout
DayAdvancesOnlyAtEndDay ==
    [][pc = "menu" =>
         /\ out' = "Day ended." =>
                /\ state'.day = state.day + 1
                /\ state'.funds = state.funds
                /\ state'.reputation = state.reputation
                /\ state'.last_live_report = state.last_live_report
                /\ state'.idols = state.idols
         /\ out' # "Day ended." => state'.day = state.day
         /\ state.day >= 1
         /\ state'.day >= state.day]_vars

\* C12 witness: the fourth day of a session has ended
FifthDay ==
    /\ out = "Day ended."
    /\ state.day = 5
    /\ state.funds = WellRested.funds
    /\ state.idols = WellRested.idols

\* C13: the reputation after Rest is less than or equal to the reputation
\* before Rest and is at least -1.0
RestLowersReputation ==
    [][(pc = "menu" /\ out' = "Rest day: Everyone recovered some stamina and mental.") =>
         /\ state'.reputation <= state.reputation
         /\ state'.reputation >= -RepScale]_vars

\* C14: whenever the loop waits at the menu, and after Quit, SAVE_FILE holds
\* the snapshot of the GroupState in memory, and reading it back gives that
\* GroupState: no completed action is missing from it
SnapshotIsCurrent ==
    InSession =>
        /\ file = Snapshot(state_to_dict(state))
        /\ load_state(file) = [crash |-> FALSE, some |-> TRUE, state |-> state]

\* C14 witness: the player has quit after a flyer run of the whole group in a
\* new game, and the snapshot holds the funds and fans left by it
QuitAfterFlyers ==
    /\ pc = "quit"
    /\ steps = 1
    /\ state.funds = 1940
    /\ state.fans > 40
    /\ state.idols[3].stats["stamina"] = 49
    /\ file.data.funds = JInt(1940)
    /\ file.data.fans = JInt(state.fans)

\* the trained stat incremented and clamped, then the fatigue applied and clamped
ClampedThenTired(idol, attr, gain, stamina_cost, mental_cost) ==
    apply_fatigue([idol EXCEPT !.stats[attr] = clamp(@ + gain)], stamina_cost, mental_cost)

\* C15: a successful Practice leaves each trained performer with the chosen
\* stat incremented by the gain and clamped to [1,100] and only then the
\* fatigue applied and clamped: clamp(clamp(old + gain) - fatigue) when the
\* stat is stamina or mental (stamina 99 ends at 97 in solo practice)
PracticeClampsBeforeFatigue ==
    [][pc = "menu" =>
         /\ out' = "Practice complete!" =>
                \E i \in Idx(state), k \in StatNames, gain \in 2..9 :
                    state'.idols = [state.idols EXCEPT ![i] = ClampedThenTired(@, k, gain, 3, 2)]
         /\ out' = "Group practice complete!" =>
                \E k \in StatNames :
                    \A i \in Idx(state) : \E gain \in 1..7 :
                        state'.idols[i] = ClampedThenTired(state.idols[i], k, gain, 2, 1)]_vars

Gains == {trained.gain[i] : i \in 1..Len(trained.gain)}

\* C16: the gain of each performer trained is within [2,8] for solo practice of
\* vocal, dance or visual, [2,9] for solo practice of stamina or mental, [1,6]
\* and [1,7] for group practice of the same; the gains of two performers in a
\* group practice differ by at most 2; vocal, dance and visual grow by the gain
GainRanges ==
    pc = "practised" =>
        /\ Len(trained.gain) = IF trained.idx = 4 THEN 3 ELSE 1
        /\ Gains \subseteq
              (CASE trained.idx # 4 /\ trained.attr \in {"vocal", "dance", "visual"} -> 2..8
                 [] trained.idx # 4 /\ trained.attr \in {"stamina", "mental"} -> 2..9
                 [] trained.idx = 4 /\ trained.attr \in {"vocal", "dance", "visual"} -> 1..6
                 [] OTHER -> 1..7)
        /\ \A g, h \in Gains : g - h <= 2
        /\ trained.attr \in {"vocal", "dance", "visual"} =>
               \A i \in Idx(state) :
                   state.idols[i].stats[trained.attr] =
                       make_game.idols[i].stats[trained.attr]
                       + (IF trained.idx = 4 THEN trained.gain[i]
                          ELSE IF trained.idx = i THEN trained.gain[1] ELSE 0)

\* C16 witness: a group practice of mental with the highest base and the
\* gains two apart
GroupGainsTwoApart ==
    /\ pc = "practised"
    /\ trained.idx = 4
    /\ trained.attr = "mental"
    /\ trained.gain = <<7, 5, 7>>
    /\ out = "Group practice complete!"

OthersUntouched(before, after, i) ==
    /\ Len(after.idols) = Len(before.idols)
    /\ \A j \in Idx(before) \ {i} : after.idols[j] = before.idols[j]

\* C17: a successful solo Practice debits exactly 120 and a successful Work of
\* one performer exactly 60 (flyers) or 140 (guerilla live); each changes the
\* stats of the selected performer only, and Practice leaves fans, day and the
\* last live report unchanged
SoloActionsFrame ==
    [][pc = "menu" =>
         /\ out' = "Practice complete!" =>
                /\ state'.funds = state.funds - 120
                /\ \E i \in Idx(state) : OthersUntouched(state, state', i)
         /\ out' \in {"Practice complete!", "Group practice complete!"} =>
                /\ state'.fans = state.fans
                /\ state'.day = state.day
                /\ state'.last_live_report = state.last_live_report
         /\ out' = "Flyer run complete!" => state'.funds = state.funds - 60
         /\ out' = "Guerilla live success!" => state'.funds = state.funds - 140
         /\ (out' \in {"Flyer run complete!", "Guerilla live success!"}
             /\ worker' \in Idx(state)) => OthersUntouched(state, state', worker')]_vars

\* C17 witness: Yui alone has played a guerilla live in a new game: she is
\* tired, Aoi and Rina are as they were, and 140 are gone
YuiWorkedAlone ==
    /\ out = "Guerilla live success!"
    /\ worker = 2
    /\ state.funds = make_game.funds - 140
    /\ state.idols[2].stats["stamina"] = bubbly.stats["stamina"] - 4
    /\ state.idols[1] = leader
    /\ state.idols[3] = serious

Cancelled == {"Practice cancelled.", "Work cancelled.", "Live cancelled."}

\* C18: a Practice, Work or Live cancelled at any of its prompts returns to the
\* menu with the whole GroupState as it was
CancelLeavesState ==
    [][(pc = "menu" /\ out' \in Cancelled) => (pc' = "menu" /\ state' = state)]_vars

\* C18 witness: in a new game Work was cancelled at the activity prompt, after
\* Yui had been chosen to work
CancelledAtActivity ==
    /\ out = "Work cancelled."
    /\ worker = 2
    /\ steps = 1
    /\ state = make_game

Income(j) == j.v[3]

\* a Live has just completed: its report is out and the tier has moved the
\* reputation (the report shown by choice 6 moves nothing)
LiveCompleted == pc = "menu" /\ out' = "LIVE REPORT" /\ state'.reputation # state.reputation

\* C19: every completed Live strictly increases funds: the turnout is at least
\* 15, the income is turnout * (400 + merch) with merch in 40..90, and the
\* funds grow by the income less the venue cost of 350
LiveRaisesFunds ==
    [][LiveCompleted =>
         LET report == state'.last_live_report
         IN  /\ IsReport(report)
             /\ Turnout(report) >= 15
             /\ \E merch \in 40..90 : Income(report) = Turnout(report) * (400 + merch)
             /\ state'.funds = state.funds + Income(report) - 350
             /\ state'.funds > state.funds]_vars

\* C19 witness: a Live before no fan at all, attended by the 15 walk-ins of the
\* lowest draw, has left more funds than the 2000 it began with
LiveOnWalkInsAlone ==
    /\ out = "LIVE REPORT"
    /\ steps = 1
    /\ IsReport(state.last_live_report)
    /\ Turnout(state.last_live_report) = 15
    /\ state.funds = 2000 + 15 * 440 - 350

Completed ==
    {"Practice complete!", "Group practice complete!", "Flyer run complete!",
     "Guerilla live success!"}

\* C20: funds increase only through a completed Live, which needs funds >= 350:
\* with funds < 350 no step increases them, and with funds < 60 no Practice,
\* Work or Live completes, funds stay as they are and only Rest and End Day
\* change the state
FundsOnlyFromLive ==
    [][pc = "menu" =>
         /\ state'.funds > state.funds => (LiveCompleted /\ state.funds >= 350)
         /\ state.funds < 350 => state'.funds <= state.funds
         /\ state.funds < 60 =>
                /\ state'.funds = state.funds
                /\ out' \notin Completed
                /\ ~LiveCompleted
                /\ state' # state =>
                       out' \in {"Rest day: Everyone recovered some stamina and mental.",
                                 "Day ended."}]_vars

\* C20 witness: with 40 in funds the group has rested: the funds are still 40
\* and Aoi has recovered
RestedWithoutFunds ==
    /\ out = "Rest day: Everyone recovered some stamina and mental."
    /\ steps = 1
    /\ state.funds = 40
    /\ state.idols[1].stats["stamina"] > OutOfFunds.idols[1].stats["stamina"]

====
